---- MODULE Spec2Model ----
(***************************************************************************)
(* EchoVerse API server (server.js): the request handlers for realities    *)
(* and shared trees over the SQLite store, with the statements each        *)
(* handler queues on the database connection and the callbacks that        *)
(* answer the request.                                                     *)
(*                                                                         *)
(* Node runs one callback at a time, so the synchronous part of a handler  *)
(* (up to the db.run / db.get / db.all call it ends with) is one step, and *)
(* the execution of a queued statement together with its callback is       *)
(* another.  The connection is in sqlite3's default parallel mode: queued  *)
(* statements of different requests execute in any order.                  *)
(***************************************************************************)
EXTENDS Integers, Sequences, FiniteSets, TLC

VARIABLES
    realities,      \* table realities, rows in insertion (rowid) order
    reality_trees,  \* table reality_trees, rows in insertion order
    analytics,      \* table analytics, rows in insertion order
    req,            \* the requests accepted so far, in arrival order
    nextUuid,       \* uuidv4(): the number of the next fresh identifier
    clock,          \* CURRENT_TIMESTAMP, in whole seconds
    crashed         \* an exception escaped a callback: the process is gone

vars == <<realities, reality_trees, analytics, req, nextUuid, clock, crashed>>

----------------------------------------------------------------------------
(* Bounds of the model *)

\* requests accepted in one run of each specification
MaxCreate == 2
MaxFetch == 3
MaxLog == 2
MaxShare == 3
MaxStoredReq == 2
MaxOrder == 3
MaxStatsReq == 2
\* rows the database file holds at the start of SpecStored
MaxStored == 2
\* rows of the session the database file holds at the start of SpecStats
MaxStatRealities == 13
MaxStatTrees == 2
\* the clock ticks at most this many seconds
MaxClock == 1
\* Math.random() returns k / RandDen for k in RandVals
RandDen == 8

(* Program constants *)

\* const { limit = 20, offset = 0 } = req.query
DefaultLimit == 20
DefaultOffset == 0
\* this.fallbackOutcomes.length, this.fallbackConsequences.length
NumFallbackOutcomes == 10
NumFallbackConsequences == 8
\* templates.length in generateDescription
NumTemplates == 4

----------------------------------------------------------------------------
(* Values.  Every identifier-like value is a pair <<tag, number>>. *)

Undefined == <<"undefined", 0>>
NULL == << <<"null", 0>> >>
Uuid(n) == <<"uuid", n>>
Num(n) == <<"int", n>>

\* sessions a client may name in a request
Sessions == {<<"sess", 1>>, <<"sess", 2>>}

\* an event is a string, a sequence of characters; EventUndefined: no event field
EventUndefined == <<"undefined">>
Events == {EventUndefined, <<>>, <<" ", " ">>, <<" ", "g">>}

\* the values Math.random() takes, as numerators over RandDen
RandVals == {0, RandDen \div 2, RandDen - 1}
\* a tape is the cycle of values successive Math.random() calls of one request
\* return; each value of RandVals comes first in one tape and second in another
Tapes == {<<0, RandDen - 1>>, <<RandDen \div 2, 0>>, <<RandDen - 1, RandDen \div 2>>}

\* probabilities are numerators over ProbDen
ProbDen == 10 * RandDen

Min(a, b) == IF a < b THEN a ELSE b

----------------------------------------------------------------------------
(* String.prototype.trim and the handler's validation *)

IsSpace(c) == c \in {" ", "\t", "\n"}

RECURSIVE TrimStart(_)
TrimStart(s) ==
    IF s # <<>> /\ IsSpace(Head(s)) THEN TrimStart(Tail(s)) ELSE s

RECURSIVE TrimEnd(_)
TrimEnd(s) ==
    IF s # <<>> /\ IsSpace(s[Len(s)]) THEN TrimEnd(SubSeq(s, 1, Len(s) - 1)) ELSE s

Trim(s) == TrimEnd(TrimStart(s))

\* the mutant: the validation without the trim
EventRejectedNoTrim(event) ==
    event = EventUndefined \/ Len(event) = 0

\* !event || event.trim().length === 0
EventRejected(event) ==
    event = EventUndefined \/ Len(event) = 0 \/ Len(Trim(event)) = 0

----------------------------------------------------------------------------
(* AIService *)

\* the i-th Math.random() of a request, as a numerator over RandDen
Random(tape, i) == tape[((i - 1) % Len(tape)) + 1]

\* Math.floor(Math.random() * n)
RandomInt(tape, i, n) == (Random(tape, i) * n) \div RandDen

\* the mutant: one outcome too many
NumOutcomesOffByOne(tape) == RandomInt(tape, 1, 3) + 3

\* Math.floor(Math.random() * 3) + 2
NumOutcomes(tape) == RandomInt(tape, 1, 3) + 2

\* generateOutcomes: the first call of Math.random gives the number of outcomes,
\* then each outcome draws its effect, its consequence, its probability
\* (Math.random() * 0.8 + 0.1) and its impact; ids are fresh uuids from firstUuid on.
\* An effect and a consequence are indexes into the two pools.
GenerateOutcomes(tape, firstUuid) ==
    [i \in 1..NumOutcomes(tape) |->
        LET base == 1 + 4 * (i - 1)
            outcome == RandomInt(tape, base + 1, NumFallbackOutcomes)
            consequence == RandomInt(tape, base + 2, NumFallbackConsequences)
        IN [id |-> Uuid(firstUuid + i - 1),
            title |-> i,
            description |-> <<outcome, consequence>>,
            probability |-> 8 * Random(tape, base + 3) + RandDen,
            impact |-> RandomInt(tape, base + 4, 10) + 1,
            consequences |-> <<consequence>>]]

\* generateFallbackReality: one canned outcome ("Alternative Path", title 0, the
\* fixed texts are index -1), probability 0.5 and impact 6
GenerateFallbackReality(firstUuid) ==
    [description |-> -1,
     outcomes |-> <<[id |-> Uuid(firstUuid),
                     title |-> 0,
                     description |-> <<-1, -1>>,
                     probability |-> 6 * RandDen,
                     impact |-> 7,
                     consequences |-> <<-1>>]>>,
     probability |-> 5 * RandDen,
     impact |-> 6,
     path |-> "fallback"]

\* generateReality: the try block, and the catch that answers with the fallback
\* when the try block raised.  After the outcomes' draws come the description's
\* template, the probability (Math.random() * 0.7 + 0.2) and the impact
\* (Math.floor(Math.random() * 8) + 3).  path records which branch returned.
GenerateReality(tape, raised, firstUuid) ==
    IF raised
    THEN GenerateFallbackReality(firstUuid)
    ELSE LET outcomes == GenerateOutcomes(tape, firstUuid)
             base == 1 + 4 * Len(outcomes)
         IN [description |-> RandomInt(tape, base + 1, NumTemplates),
             outcomes |-> outcomes,
             probability |-> 7 * Random(tape, base + 2) + 2 * RandDen,
             impact |-> RandomInt(tape, base + 3, 8) + 3,
             path |-> "normal"]

----------------------------------------------------------------------------
(* JSON.stringify and JSON.parse on outcome lists.  A text is a sequence of *)
(* tokens <<tag, number>>: brackets, braces, and one token per scalar.      *)

Tok(tag, n) == <<tag, n>>
IsTok(t, tag) == t[1] = tag

RECURSIVE StringifyConsequences(_)
StringifyConsequences(cs) ==
    IF cs = <<>> THEN <<>>
    ELSE <<Tok("consequences", Head(cs))>> \o StringifyConsequences(Tail(cs))

StringifyOutcome(o) ==
    <<Tok("{", 0), Tok("id", o.id[2]), Tok("title", o.title),
      Tok("description.outcome", o.description[1]),
      Tok("description.consequence", o.description[2]),
      Tok("probability", o.probability), Tok("impact", o.impact)>>
    \o StringifyConsequences(o.consequences) \o <<Tok("}", 0)>>

RECURSIVE StringifyItems(_)
StringifyItems(os) ==
    IF os = <<>> THEN <<>>
    ELSE StringifyOutcome(Head(os)) \o StringifyItems(Tail(os))

\* JSON.stringify(reality.outcomes)
Stringify(os) == <<Tok("[", 0)>> \o StringifyItems(os) \o <<Tok("]", 0)>>

\* the text '[]'
EmptyArrayText == <<Tok("[", 0), Tok("]", 0)>>

\* the tokens of body tagged tag, as the sequence of their numbers
Payloads(body, tag) ==
    LET hits == SelectSeq(body, LAMBDA t : IsTok(t, tag))
    IN [i \in 1..Len(hits) |-> hits[i][2]]

ScalarKeys == {"id", "title", "description.outcome", "description.consequence",
               "probability", "impact"}

ObjectKeys == ScalarKeys \cup {"consequences"}

\* an object body parses when it holds every scalar key once and only known keys
ObjectOk(body) ==
    /\ \A i \in 1..Len(body) : body[i][1] \in ObjectKeys
    /\ \A k \in ScalarKeys : Len(Payloads(body, k)) = 1

ParseObject(body) ==
    [id |-> Uuid(Payloads(body, "id")[1]),
     title |-> Payloads(body, "title")[1],
     description |-> <<Payloads(body, "description.outcome")[1],
                       Payloads(body, "description.consequence")[1]>>,
     probability |-> Payloads(body, "probability")[1],
     impact |-> Payloads(body, "impact")[1],
     consequences |-> Payloads(body, "consequences")]

\* the index of the first "}" of toks, 0 when there is none
FirstClose(toks) ==
    LET closes == {i \in 1..Len(toks) : IsTok(toks[i], "}")}
    IN IF closes = {} THEN 0 ELSE CHOOSE i \in closes : \A j \in closes : i <= j

\* the items between the brackets: [ok, value]; ok is FALSE where JSON.parse throws
RECURSIVE ParseItems(_)
ParseItems(toks) ==
    IF toks = <<>> THEN [ok |-> TRUE, value |-> <<>>]
    ELSE IF ~IsTok(Head(toks), "{") \/ FirstClose(toks) = 0
    THEN [ok |-> FALSE, value |-> <<>>]
    ELSE LET close == FirstClose(toks)
             body == SubSeq(toks, 2, close - 1)
             rest == ParseItems(SubSeq(toks, close + 1, Len(toks)))
         IN IF ObjectOk(body) /\ rest.ok
            THEN [ok |-> TRUE, value |-> <<ParseObject(body)>> \o rest.value]
            ELSE [ok |-> FALSE, value |-> <<>>]

\* the mutant: a parse that loses the last item of the list
ParseDropsLast(text) ==
    IF Len(text) < 2 \/ ~IsTok(text[1], "[") \/ ~IsTok(text[Len(text)], "]")
    THEN [ok |-> FALSE, value |-> <<>>]
    ELSE LET r == ParseItems(SubSeq(text, 2, Len(text) - 1))
         IN [ok |-> r.ok,
             value |-> IF r.value = <<>> THEN <<>>
                       ELSE SubSeq(r.value, 1, Len(r.value) - 1)]

\* JSON.parse(text) for the texts the outcomes column holds
Parse(text) ==
    IF Len(text) < 2 \/ ~IsTok(text[1], "[") \/ ~IsTok(text[Len(text)], "]")
    THEN [ok |-> FALSE, value |-> <<>>]
    ELSE ParseItems(SubSeq(text, 2, Len(text) - 1))

\* row.outcomes || '[]': NULL and the empty string are falsy
OutcomesTextOrDefault(text) ==
    IF text = NULL \/ text = <<>> THEN EmptyArrayText ELSE text

----------------------------------------------------------------------------
(* Requests *)

NoResp == [status |-> 0]

\* (hist of POST /api/realities: overlaps, another creation request of the same
\* session was waiting for its INSERT when this one arrived)
\* a request record: kind; pc ("db": its statement is queued, "done": its
\* callback has run); the inputs in; the queued statement's parameters stmt;
\* the response resp; aux, the state of the statement the callback queues
\* without waiting for it ("none", "queued", "ok", "err"); hist, a history
\* record of what the store held when the request's statements executed, which
\* no step reads
NewReq(kind, pc, in, stmt, resp) ==
    [kind |-> kind, pc |-> pc, in |-> in, stmt |-> stmt, resp |-> resp,
     aux |-> "none", hist |-> <<>>]

Issued == 1..Len(req)

\* the server accepts requests while the process lives
CanAccept == ~crashed

ErrorResp(status, message) == [status |-> status, error |-> message]

----------------------------------------------------------------------------
(* POST /api/realities *)

\* the synchronous part of the handler: the defaults of the body's fields, the
\* validation, the generation (its awaits resolve without leaving the handler)
\* and the db.run that queues the INSERT with its bound parameters
PostRealities(event, userSessionIn, tape, raised) ==
    /\ CanAccept
    /\ LET defaulted == userSessionIn = Undefined
           userSession == IF defaulted THEN Uuid(nextUuid) ELSE userSessionIn
           first == IF defaulted THEN nextUuid + 1 ELSE nextUuid
           in == [event |-> event, userSession |-> userSession]
       IN IF EventRejected(event)
          THEN /\ req' = Append(req, NewReq("postRealities", "done", in, <<>>,
                              ErrorResp(400, "Event description is required")))
               /\ nextUuid' = first
          ELSE LET reality == GenerateReality(tape, raised, first)
                   realityId == Uuid(first + Len(reality.outcomes))
                   stmt == [id |-> realityId,
                            user_session |-> userSession,
                            description |-> reality.description,
                            original_event |-> event,
                            outcomes |-> Stringify(reality.outcomes),
                            probability_score |-> reality.probability,
                            impact_score |-> reality.impact,
                            reality |-> reality]
               IN /\ req' = Append(req,
                        [NewReq("postRealities", "db", in, stmt, NoResp)
                         EXCEPT !.hist = [overlaps |-> \E q \in Issued :
                                             /\ req[q].kind = "postRealities"
                                             /\ req[q].pc = "db"
                                             /\ req[q].in.userSession = userSession]])
                  /\ nextUuid' = first + Len(reality.outcomes) + 1
    /\ UNCHANGED <<realities, reality_trees, analytics, clock, crashed>>

\* the mutant: the INSERT replaces the rows the session had
RowsAfterReplace(rows, row) ==
    Append(SelectSeq(rows, LAMBDA old : old.user_session # row.user_session), row)

\* INSERT INTO realities (...) VALUES (...): one more row
RowsAfterInsert(rows, row) == Append(rows, row)

\* the body of the success response: { id, userSession, ...reality }
RealityResp(q) ==
    [status |-> 200,
     id |-> q.stmt.id,
     userSession |-> q.in.userSession,
     description |-> q.stmt.reality.description,
     outcomes |-> q.stmt.reality.outcomes,
     probability |-> q.stmt.reality.probability,
     impact |-> q.stmt.reality.impact]

\* the INSERT executes and its callback runs: on an error a 500; otherwise the
\* row is stored (created_at DEFAULT CURRENT_TIMESTAMP), logEvent queues the
\* analytics INSERT and the reality is sent
RealitiesInsert(r, err) ==
    /\ ~crashed
    /\ r \in Issued
    /\ req[r].kind = "postRealities"
    /\ req[r].pc = "db"
    /\ IF err
       THEN /\ req' = [req EXCEPT ![r].pc = "done",
                                  ![r].resp = ErrorResp(500, "Failed to save reality")]
            /\ UNCHANGED realities
       ELSE /\ realities' = RowsAfterInsert(realities,
                    [id |-> req[r].stmt.id,
                     user_session |-> req[r].stmt.user_session,
                     description |-> req[r].stmt.description,
                     original_event |-> req[r].stmt.original_event,
                     outcomes |-> req[r].stmt.outcomes,
                     probability_score |-> req[r].stmt.probability_score,
                     impact_score |-> req[r].stmt.impact_score,
                     created_at |-> clock])
            /\ req' = [req EXCEPT ![r].pc = "done",
                                  ![r].aux = "queued",
                                  ![r].resp = RealityResp(req[r])]
    /\ UNCHANGED <<reality_trees, analytics, nextUuid, clock, crashed>>

----------------------------------------------------------------------------
(* logEvent *)

\* the event a request logs: (userSession, eventType, eventData)
LoggedEvent(q) ==
    IF q.kind = "postRealities"
    THEN [user_session |-> q.in.userSession, event_type |-> "create_reality",
          event_data |-> q.stmt.id]
    ELSE [user_session |-> q.in.userSession, event_type |-> "save_tree",
          event_data |-> q.stmt.id]

\* the mutant: a failed analytics INSERT takes the primary row back
AnalyticsInsertUndoes(r, err) ==
    /\ ~crashed
    /\ r \in Issued
    /\ req[r].kind \in {"postRealities", "postTrees"}
    /\ req[r].aux = "queued"
    /\ IF err
       THEN /\ req' = [req EXCEPT ![r].aux = "err"]
            /\ realities' = SelectSeq(realities, LAMBDA row : row.id # req[r].stmt.id)
            /\ reality_trees' = SelectSeq(reality_trees, LAMBDA row : row.id # req[r].stmt.id)
            /\ UNCHANGED analytics
       ELSE /\ analytics' = Append(analytics,
                    [id |-> Len(analytics) + 1] @@ LoggedEvent(req[r]))
            /\ req' = [req EXCEPT ![r].aux = "ok"]
            /\ UNCHANGED <<realities, reality_trees>>
    /\ UNCHANGED <<nextUuid, clock, crashed>>

\* the analytics INSERT that logEvent queued executes; its callback only logs
\* an error (id INTEGER PRIMARY KEY AUTOINCREMENT)
AnalyticsInsert(r, err) ==
    /\ ~crashed
    /\ r \in Issued
    /\ req[r].kind \in {"postRealities", "postTrees"}
    /\ req[r].aux = "queued"
    /\ IF err
       THEN /\ req' = [req EXCEPT ![r].aux = "err"]
            /\ UNCHANGED analytics
       ELSE /\ analytics' = Append(analytics,
                    [id |-> Len(analytics) + 1] @@ LoggedEvent(req[r]))
            /\ req' = [req EXCEPT ![r].aux = "ok"]
    /\ UNCHANGED <<realities, reality_trees, nextUuid, clock, crashed>>

----------------------------------------------------------------------------
(* GET /api/realities/:userSession *)

\* parseInt of a query parameter, the default when it is absent
QueryInt(v, default) == IF v = Undefined THEN default ELSE v[2]

\* the handler: db.all queues the SELECT with (userSession, limit, offset)
GetRealities(userSession, limitIn, offsetIn) ==
    /\ CanAccept
    /\ req' = Append(req, NewReq("getRealities", "db",
                    [userSession |-> userSession],
                    [user_session |-> userSession,
                     limit |-> QueryInt(limitIn, DefaultLimit),
                     offset |-> QueryInt(offsetIn, DefaultOffset)],
                    NoResp))
    /\ UNCHANGED <<realities, reality_trees, analytics, nextUuid, clock, crashed>>

\* the rows of a session, in insertion order
SessionRows(userSession) ==
    SelectSeq(realities, LAMBDA row : row.user_session = userSession)

\* ORDER BY created_at DESC: the orders the store may give rows, those that
\* never put an older second before a newer one (rows of one second in any order)
Orders(rows) ==
    {p \in Permutations(1..Len(rows)) :
        \A i, j \in 1..Len(rows) :
            i < j => rows[p[i]].created_at >= rows[p[j]].created_at}

\* LIMIT ? OFFSET ? on the ordered rows
Page(rows, p, limit, offset) ==
    [i \in 1..(Min(Len(rows), offset + limit) - Min(Len(rows), offset)) |->
        rows[p[offset + i]]]

\* rows.map(row => ({...row, outcomes: JSON.parse(row.outcomes || '[]')}))
MapRows(rows) ==
    [i \in 1..Len(rows) |->
        [id |-> rows[i].id,
         user_session |-> rows[i].user_session,
         created_at |-> rows[i].created_at,
         outcomes |-> Parse(OutcomesTextOrDefault(rows[i].outcomes)).value]]

\* JSON.parse throws on some row of the page
MapRowsThrows(rows) ==
    \E i \in 1..Len(rows) : ~Parse(OutcomesTextOrDefault(rows[i].outcomes)).ok

\* the SELECT executes and its callback runs: on an error a 500; otherwise the
\* rows are mapped and sent.  The callback has no try: an exception of
\* JSON.parse escapes it, no response is sent and the process ends.
RealitiesSelect(r, err) ==
    /\ ~crashed
    /\ r \in Issued
    /\ req[r].kind = "getRealities"
    /\ req[r].pc = "db"
    /\ IF err
       THEN /\ req' = [req EXCEPT ![r].pc = "done",
                                  ![r].resp = ErrorResp(500, "Failed to fetch realities")]
            /\ UNCHANGED crashed
       ELSE \E p \in Orders(SessionRows(req[r].stmt.user_session)) :
              LET rows == Page(SessionRows(req[r].stmt.user_session), p,
                               req[r].stmt.limit, req[r].stmt.offset)
              IN IF MapRowsThrows(rows)
                 THEN /\ req' = [req EXCEPT ![r].pc = "done"]
                      /\ crashed' = TRUE
                 ELSE /\ req' = [req EXCEPT ![r].pc = "done",
                                            ![r].resp = [status |-> 200,
                                                         realities |-> MapRows(rows),
                                                         count |-> Len(rows)],
                                            ![r].hist = [stored |-> SessionRows(req[r].stmt.user_session)]]
                      /\ UNCHANGED crashed
    /\ UNCHANGED <<realities, reality_trees, analytics, nextUuid, clock>>

----------------------------------------------------------------------------
(* POST /api/trees *)

\* JSON.stringify(treeData): a tree <<"tree", n>> as the text <<"text", n>>;
\* of undefined it is undefined, which binds as NULL
StringifyTree(treeData) ==
    IF treeData = Undefined THEN NULL ELSE <<"text", treeData[2]>>

\* JSON.parse(row.tree_data): of null it is null
ParseTree(text) ==
    IF text = NULL THEN NULL ELSE <<"tree", text[2]>>

\* the mutant: a token is minted whatever makePublic is
ShareTokenAlways(makePublic, n) == Uuid(n)

\* makePublic ? uuidv4() : null
ShareTokenFor(makePublic, n) == IF makePublic THEN Uuid(n) ELSE NULL

\* the handler: the defaults of the body's fields (makePublic = false), the
\* fresh treeId and shareToken, and the db.run that queues the INSERT
PostTrees(treeData, userSessionIn, makePublicIn) ==
    /\ CanAccept
    /\ LET defaulted == userSessionIn = Undefined
           userSession == IF defaulted THEN Uuid(nextUuid) ELSE userSessionIn
           first == IF defaulted THEN nextUuid + 1 ELSE nextUuid
           makePublic == IF makePublicIn = <<>> THEN FALSE ELSE makePublicIn[1]
           treeId == Uuid(first)
           shareToken == ShareTokenFor(makePublic, first + 1)
       IN /\ req' = Append(req, NewReq("postTrees", "db",
                        [userSession |-> userSession, makePublic |-> makePublic],
                        [id |-> treeId,
                         user_session |-> userSession,
                         tree_data |-> StringifyTree(treeData),
                         share_token |-> shareToken,
                         is_public |-> IF makePublic THEN 1 ELSE 0],
                        NoResp))
          /\ nextUuid' = IF makePublic THEN first + 2 ELSE first + 1
    /\ UNCHANGED <<realities, reality_trees, analytics, clock, crashed>>

\* shareToken ? `${req.protocol}://${req.get('host')}/share/${shareToken}` : null
ShareUrl(shareToken) ==
    IF shareToken = NULL THEN NULL ELSE <<"url", shareToken[2]>>

\* the INSERT executes and its callback runs: on an error a 500; otherwise the
\* row is stored (view_count DEFAULT 0), logEvent queues the analytics INSERT
\* and { treeId, shareToken, shareUrl } is sent
TreesInsert(r, err) ==
    /\ ~crashed
    /\ r \in Issued
    /\ req[r].kind = "postTrees"
    /\ req[r].pc = "db"
    /\ IF err
       THEN /\ req' = [req EXCEPT ![r].pc = "done",
                                  ![r].resp = ErrorResp(500, "Failed to save tree")]
            /\ UNCHANGED reality_trees
       ELSE /\ reality_trees' = Append(reality_trees,
                    [id |-> req[r].stmt.id,
                     user_session |-> req[r].stmt.user_session,
                     tree_data |-> req[r].stmt.tree_data,
                     share_token |-> req[r].stmt.share_token,
                     is_public |-> req[r].stmt.is_public,
                     view_count |-> 0,
                     created_at |-> clock])
            /\ req' = [req EXCEPT ![r].pc = "done",
                                  ![r].aux = "queued",
                                  ![r].resp = [status |-> 200,
                                               treeId |-> req[r].stmt.id,
                                               shareToken |-> req[r].stmt.share_token,
                                               shareUrl |-> ShareUrl(req[r].stmt.share_token)]]
    /\ UNCHANGED <<realities, analytics, nextUuid, clock, crashed>>

----------------------------------------------------------------------------
(* GET /api/trees/share/:shareToken *)

\* the earlier requests for the same share token
EarlierFetches(shareToken) ==
    {q \in Issued : req[q].kind = "getShare" /\ req[q].in.shareToken = shareToken}

\* a request whose SELECT or whose UPDATE is still queued
InFlight(q) == q.pc = "db" \/ q.aux = "queued"

\* the handler: db.get queues the SELECT.  hist keeps k, the request's place
\* among the requests for its token, and seq: the requests for the token came
\* one after another so far, each answered 200 with its view-count update
\* applied before the next arrived (an arrival clears seq of the requests for
\* the token that it overlaps)
GetShare(shareToken) ==
    /\ CanAccept
    /\ LET earlier == EarlierFetches(shareToken)
           marked == [q \in 1..Len(req) |->
                        IF q \in earlier /\ InFlight(req[q])
                        THEN [req[q] EXCEPT !.hist.seq = FALSE]
                        ELSE req[q]]
       IN req' = Append(marked,
            [NewReq("getShare", "db", [shareToken |-> shareToken],
                    [share_token |-> shareToken], NoResp)
             EXCEPT !.hist = [k |-> Cardinality(earlier) + 1,
                              seq |-> \A q \in earlier :
                                         /\ req[q].pc = "done"
                                         /\ req[q].resp.status = 200
                                         /\ req[q].aux = "ok"
                                         /\ req[q].hist.seq,
                              after |-> 0]])
    /\ UNCHANGED <<realities, reality_trees, analytics, nextUuid, clock, crashed>>

\* the mutant: the lookup compares the token with the row's id
ShareLookupById(shareToken) ==
    SelectSeq(reality_trees, LAMBDA row : row.id = shareToken)

\* SELECT * FROM reality_trees WHERE share_token = ? AND is_public = 1
\* (a NULL share_token equals nothing)
ShareLookup(shareToken) ==
    SelectSeq(reality_trees,
              LAMBDA row : /\ row.share_token # NULL
                           /\ row.share_token = shareToken
                           /\ row.is_public = 1)

\* the mutant: the count read before the increment is sent
ViewCountStale(row) == row.view_count

\* viewCount: row.view_count + 1
ViewCountSent(row) == row.view_count + 1

\* the SELECT executes and its callback runs: on an error a 500, without a row
\* a 404; otherwise db.run queues the UPDATE of the row's view_count, and the
\* tree is sent with the count computed from the row that was read
ShareSelect(r, err) ==
    /\ ~crashed
    /\ r \in Issued
    /\ req[r].kind = "getShare"
    /\ req[r].pc = "db"
    /\ LET rows == ShareLookup(req[r].stmt.share_token)
       IN IF err
          THEN req' = [req EXCEPT ![r].pc = "done",
                                  ![r].resp = ErrorResp(500, "Failed to fetch tree")]
          ELSE IF rows = <<>>
          THEN req' = [req EXCEPT ![r].pc = "done",
                                  ![r].resp = ErrorResp(404, "Shared tree not found")]
          ELSE req' = [req EXCEPT ![r].pc = "done",
                                  ![r].aux = "queued",
                                  ![r].stmt = [share_token |-> req[r].stmt.share_token,
                                               id |-> rows[1].id],
                                  ![r].resp = [status |-> 200,
                                               id |-> rows[1].id,
                                               treeData |-> ParseTree(rows[1].tree_data),
                                               viewCount |-> ViewCountSent(rows[1])]]
    /\ UNCHANGED <<realities, reality_trees, analytics, nextUuid, clock, crashed>>

\* the mutant: the UPDATE also takes the tree out of sharing
IncrementViewsUnshares(id) ==
    [i \in 1..Len(reality_trees) |->
        IF reality_trees[i].id = id
        THEN [reality_trees[i] EXCEPT !.view_count = @ + 1,
                                      !.share_token = NULL,
                                      !.is_public = 0]
        ELSE reality_trees[i]]

\* the mutant: the UPDATE writes the count of a first view
IncrementViewsLost(id) ==
    [i \in 1..Len(reality_trees) |->
        IF reality_trees[i].id = id
        THEN [reality_trees[i] EXCEPT !.view_count = 1]
        ELSE reality_trees[i]]

\* UPDATE reality_trees SET view_count = view_count + 1 WHERE id = ?
IncrementViews(id) ==
    [i \in 1..Len(reality_trees) |->
        IF reality_trees[i].id = id
        THEN [reality_trees[i] EXCEPT !.view_count = @ + 1]
        ELSE reality_trees[i]]

\* the view_count of the row with this id
ViewCountOf(rows, id) ==
    LET hit == SelectSeq(rows, LAMBDA row : row.id = id)
    IN hit[1].view_count

\* the UPDATE that the callback queued executes (it has no callback of its
\* own).  hist.after keeps the view_count it leaves in the row.
ViewUpdate(r, err) ==
    /\ ~crashed
    /\ r \in Issued
    /\ req[r].kind = "getShare"
    /\ req[r].aux = "queued"
    /\ IF err
       THEN /\ req' = [req EXCEPT ![r].aux = "err"]
            /\ UNCHANGED reality_trees
       ELSE /\ reality_trees' = IncrementViews(req[r].stmt.id)
            /\ req' = [req EXCEPT ![r].aux = "ok",
                                  ![r].hist.after =
                                      ViewCountOf(IncrementViews(req[r].stmt.id),
                                                  req[r].stmt.id)]
    /\ UNCHANGED <<realities, analytics, nextUuid, clock, crashed>>

----------------------------------------------------------------------------
(* The numbers of the handlers: JavaScript numbers are IEEE 754 doubles, 53
   significant bits, every operation rounded to the nearest double, ties to
   the even one.  A positive double is kept here as a natural number of units
   of 2^-52 or 2^-54, the natural number as its digits to the base LimbBase,
   lowest first, so that no intermediate value leaves the integers of the
   checker.  Counts below 2^10 and sums below 2^17 are covered. *)

LimbBits == 20
LimbBase == 2 ^ LimbBits
MantissaBits == 53

\* the double nearest to 1.7 is Double17 * 2^-52, the one nearest to 0.3 is
\* Double03 * 2^-54
Double17 == <<209715, 209715, 6963>>
Double03 == <<209715, 209715, 4915>>
ScaleBits == 54

RECURSIVE Carry(_, _)
\* the digits of x + c * LimbBase^0 where the entries of x may exceed a digit
Carry(x, c) ==
    IF x = <<>>
    THEN IF c = 0 THEN <<>> ELSE <<c % LimbBase>> \o Carry(<<>>, c \div LimbBase)
    ELSE <<(Head(x) + c) % LimbBase>> \o Carry(Tail(x), (Head(x) + c) \div LimbBase)

Digit(x, i) == IF i <= Len(x) THEN x[i] ELSE 0

BigMul(x, k) == Carry([i \in 1..Len(x) |-> x[i] * k], 0)

BigAdd(x, y) ==
    Carry([i \in 1..(IF Len(x) > Len(y) THEN Len(x) ELSE Len(y)) |->
              Digit(x, i) + Digit(y, i)], 0)

RECURSIVE BitsOfDigit(_)
BitsOfDigit(d) == IF d = 0 THEN 0 ELSE 1 + BitsOfDigit(d \div 2)

RECURSIVE BitLen(_)
\* the number of significant bits of x
BitLen(x) ==
    IF x = <<>> THEN 0
    ELSE IF x[Len(x)] = 0 THEN BitLen(SubSeq(x, 1, Len(x) - 1))
    ELSE (Len(x) - 1) * LimbBits + BitsOfDigit(x[Len(x)])

\* x rounded to MantissaBits significant bits, to nearest, ties to even
RoundToDouble(x) ==
    LET s == BitLen(x) - MantissaBits
    IN IF s <= 0 THEN x
       ELSE LET unit == 2 ^ s
                rem == x[1] % unit
                odd == ((x[1] \div unit) % 2) = 1
                up == (2 * rem > unit) \/ (2 * rem = unit /\ odd)
            IN BigAdd([x EXCEPT ![1] = x[1] - rem], IF up THEN <<unit>> ELSE <<>>)

\* Math.floor of the double x * 2^-ScaleBits
FloorOfDouble(x) ==
    LET whole == ScaleBits \div LimbBits
        part == 2 ^ (ScaleBits % LimbBits)
    IN (Digit(x, whole + 1) + Digit(x, whole + 2) * LimbBase) \div part

\* Math.floor(reality_count * 1.7 + interaction_count * 0.3)
DiversityScore(reality_count, interaction_count) ==
    LET a == RoundToDouble(BigMul(Double17, reality_count))
        b == RoundToDouble(BigMul(Double03, interaction_count))
        sum == RoundToDouble(BigAdd(BigMul(a, 2 ^ (ScaleBits - 52)), b))
    IN FloorOfDouble(sum)

----------------------------------------------------------------------------
(* GET /api/stats/:userSession *)

\* the tables of the three COUNT queries, in the order of the handler's array
StatsTable(k) ==
    IF k = 1 THEN realities ELSE IF k = 2 THEN reality_trees ELSE analytics

\* SELECT COUNT(*) ... WHERE user_session = ?
CountRows(rows, userSession) ==
    Len(SelectSeq(rows, LAMBDA row : row.user_session = userSession))

\* the handler: three db.get calls queue the three COUNT queries, each behind
\* its own promise (hist: the counts when the request arrived)
GetStats(userSession) ==
    /\ CanAccept
    /\ req' = Append(req,
            [NewReq("getStats", "db",
                    [userSession |-> userSession],
                    [user_session |-> userSession,
                     promise |-> <<"pending", "pending", "pending">>,
                     result |-> <<0, 0, 0>>],
                    NoResp)
             EXCEPT !.hist = [at |-> [k \in 1..3 |->
                                        CountRows(StatsTable(k), userSession)]]])
    /\ UNCHANGED <<realities, reality_trees, analytics, nextUuid, clock, crashed>>

\* the body res.json sends when the three promises are resolved
StatsResp(result) ==
    [status |-> 200,
     realitiesCreated |-> result[1],
     treesSaved |-> result[2],
     totalInteractions |-> result[3],
     diversityScore |-> DiversityScore(result[1], result[3])]

\* the k-th COUNT query executes and its callback settles its promise.  The
\* first rejection rejects Promise.all and the catch sends the 500; the
\* fulfilment of the last of three sends the counts; a query that executes
\* after a rejection changes nothing but its own promise.
StatsCount(r, k, err) ==
    /\ ~crashed
    /\ r \in Issued
    /\ req[r].kind = "getStats"
    /\ req[r].stmt.promise[k] = "pending"
    /\ LET q == req[r]
           promise == [q.stmt.promise EXCEPT
                          ![k] = IF err THEN "rejected" ELSE "fulfilled"]
           result == IF err THEN q.stmt.result
                     ELSE [q.stmt.result EXCEPT
                              ![k] = CountRows(StatsTable(k), q.stmt.user_session)]
           stmt == [q.stmt EXCEPT !.promise = promise, !.result = result]
       IN IF q.pc = "done"
          THEN req' = [req EXCEPT ![r].stmt = stmt]
          ELSE IF err
          THEN req' = [req EXCEPT ![r].stmt = stmt,
                                  ![r].pc = "done",
                                  ![r].resp = ErrorResp(500, "Failed to fetch stats")]
          ELSE IF \A i \in 1..3 : promise[i] = "fulfilled"
          THEN req' = [req EXCEPT ![r].stmt = stmt,
                                  ![r].pc = "done",
                                  ![r].resp = StatsResp(result)]
          ELSE req' = [req EXCEPT ![r].stmt = stmt]
    /\ UNCHANGED <<realities, reality_trees, analytics, nextUuid, clock, crashed>>

----------------------------------------------------------------------------
(* The clock and the specifications *)

\* a second passes
Tick ==
    /\ ~crashed
    /\ clock < MaxClock
    /\ clock' = clock + 1
    /\ UNCHANGED <<realities, reality_trees, analytics, req, nextUuid, crashed>>

\* a database file without rows, no request yet
Init ==
    /\ realities = <<>>
    /\ reality_trees = <<>>
    /\ analytics = <<>>
    /\ req = <<>>
    /\ nextUuid = 1
    /\ clock = 0
    /\ crashed = FALSE

S1 == <<"sess", 1>>

\* the request inputs the specifications draw from
ValidEvent == <<" ", "g">>
OneTape == <<RandDen \div 2, 0>>
TreeData == <<"tree", 1>>
\* limit and offset as a client sends them: none, a limit, an offset
PageInputs == {<<Undefined, Undefined>>, <<Num(1), Undefined>>, <<Undefined, Num(1)>>}
\* makePublic as a client sends it: absent, true, false
MakePublicInputs == {<<>>, <<TRUE>>, <<FALSE>>}

\* the token of the URL a client builds from shareToken: null
NullString == <<"string:null", 0>>

\* the tokens a client asks for: the share tokens and the ids the store has
\* given out, and the string "null"
TokenGuesses ==
    ({reality_trees[i].share_token : i \in 1..Len(reality_trees)} \ {NULL})
    \cup {reality_trees[i].id : i \in 1..Len(reality_trees)}
    \cup {NullString}

(* SpecCreate: POST /api/realities for the session S1, with every kind of
   event and of generation. *)
NextCreate ==
    \/ /\ Len(req) < MaxCreate
       /\ \E event \in Events, tape \in Tapes, raised \in BOOLEAN :
             PostRealities(event, S1, tape, raised)
    \/ \E r \in Issued, err \in BOOLEAN : RealitiesInsert(r, err)
    \/ \E r \in Issued, err \in BOOLEAN : AnalyticsInsert(r, err)

SpecCreate == Init /\ [][NextCreate]_vars

(* SpecFetch: POST /api/realities and GET /api/realities/:userSession, for the
   session S1 and for sessions the server names, within one second: every
   row has the same created_at, and ORDER BY may give the rows in any order. *)
NextFetch ==
    \/ /\ Len(req) < MaxFetch
       /\ \E s \in {S1, Undefined} : PostRealities(ValidEvent, s, OneTape, FALSE)
    \/ \E r \in Issued, err \in BOOLEAN : RealitiesInsert(r, err)
    \/ \E r \in Issued : AnalyticsInsert(r, FALSE)
    \/ /\ Len(req) < MaxFetch
       /\ \E page \in PageInputs : GetRealities(S1, page[1], page[2])
    \/ \E r \in Issued, err \in BOOLEAN : RealitiesSelect(r, err)

SpecFetch == Init /\ [][NextFetch]_vars

(* SpecLog: the two handlers that log an event, with an analytics INSERT that
   may fail. *)
NextLog ==
    \/ /\ Len(req) < MaxLog
       /\ PostRealities(ValidEvent, S1, OneTape, FALSE)
    \/ /\ Len(req) < MaxLog
       /\ \E mp \in MakePublicInputs : PostTrees(TreeData, S1, mp)
    \/ \E r \in Issued, err \in BOOLEAN : RealitiesInsert(r, err)
    \/ \E r \in Issued, err \in BOOLEAN : TreesInsert(r, err)
    \/ \E r \in Issued, err \in BOOLEAN : AnalyticsInsert(r, err)

SpecLog == Init /\ [][NextLog]_vars

(* SpecTrees: POST /api/trees and GET /api/trees/share/:shareToken. *)
NextTrees ==
    \/ /\ Len(req) < MaxShare
       /\ \E mp \in MakePublicInputs : PostTrees(TreeData, S1, mp)
    \/ \E r \in Issued, err \in BOOLEAN : TreesInsert(r, err)
    \/ \E r \in Issued : AnalyticsInsert(r, FALSE)
    \/ /\ Len(req) < MaxShare
       /\ \E t \in TokenGuesses : GetShare(t)
    \/ \E r \in Issued, err \in BOOLEAN : ShareSelect(r, err)
    \/ \E r \in Issued, err \in BOOLEAN : ViewUpdate(r, err)

SpecTrees == Init /\ [][NextTrees]_vars

(* SpecStored: GET /api/realities/:userSession on a database file that holds
   rows from before: the outcomes column is TEXT without a constraint, and
   the file outlives the process (CREATE TABLE IF NOT EXISTS). *)

\* a list of two outcomes, as a row written by POST /api/realities holds it
StoredOutcomes == GenerateOutcomes(<<0, RandDen - 1>>, 1)

\* what the outcomes column of a stored row may hold: NULL, the empty string,
\* a text JSON.stringify wrote, and texts that are not JSON
StoredTexts ==
    {NULL, <<>>, Stringify(StoredOutcomes),
     <<Tok("[", 0), Tok("{", 0)>>, <<Tok("oops", 0)>>}

StoredRow(i, text) ==
    [id |-> <<"stored", i>>, user_session |-> S1, description |-> 0,
     original_event |-> ValidEvent, outcomes |-> text,
     probability_score |-> 5 * RandDen, impact_score |-> 5, created_at |-> 0]

InitStored ==
    /\ \E n \in 0..MaxStored :
          \E texts \in [1..n -> StoredTexts] :
             realities = [i \in 1..n |-> StoredRow(i, texts[i])]
    /\ reality_trees = <<>>
    /\ analytics = <<>>
    /\ req = <<>>
    /\ nextUuid = 1
    /\ clock = 0
    /\ crashed = FALSE

NextStored ==
    \/ /\ Len(req) < MaxStoredReq
       /\ \E page \in PageInputs : GetRealities(S1, page[1], page[2])
    \/ \E r \in Issued, err \in BOOLEAN : RealitiesSelect(r, err)

SpecStored == InitStored /\ [][NextStored]_vars

(* SpecOrder: POST /api/realities and GET /api/realities/:userSession while
   the seconds pass: rows stored in different seconds differ in created_at,
   rows stored in the same second do not. *)
NextOrder ==
    \/ /\ Len(req) < MaxOrder
       /\ \E s \in {S1, Undefined} : PostRealities(ValidEvent, s, OneTape, FALSE)
    \/ \E r \in Issued : RealitiesInsert(r, FALSE)
    \/ \E r \in Issued : AnalyticsInsert(r, FALSE)
    \/ /\ Len(req) < MaxOrder
       /\ \E page \in PageInputs : GetRealities(S1, page[1], page[2])
    \/ \E r \in Issued : RealitiesSelect(r, FALSE)
    \/ Tick

SpecOrder == Init /\ [][NextOrder]_vars

(* SpecStats: GET /api/stats/:userSession, with POST /api/realities beside
   it, on a database file that holds rows from before: realities and trees
   of the session S1, the analytics events of some of them (a failed
   analytics INSERT leaves none), and one row of another session per table. *)

S2 == <<"sess", 2>>

StoredTree(i, userSession) ==
    [id |-> <<"stored-tree", i>>, user_session |-> userSession,
     tree_data |-> StringifyTree(TreeData), share_token |-> NULL,
     is_public |-> 0, view_count |-> 0, created_at |-> 0]

StoredEvent(i, userSession) ==
    [id |-> i, user_session |-> userSession, event_type |-> "create_reality",
     event_data |-> <<"stored", i>>]

InitStats ==
    /\ \E n \in 0..MaxStatRealities :
          realities = [i \in 1..(n + 1) |->
                          IF i <= n THEN StoredRow(i, EmptyArrayText)
                          ELSE [StoredRow(i, EmptyArrayText) EXCEPT !.user_session = S2]]
    /\ \E n \in 0..MaxStatTrees :
          reality_trees = [i \in 1..(n + 1) |->
                              StoredTree(i, IF i <= n THEN S1 ELSE S2)]
    /\ \E n \in 0..(Len(realities) + Len(reality_trees) - 2) :
          analytics = [i \in 1..(n + 1) |->
                          StoredEvent(i, IF i <= n THEN S1 ELSE S2)]
    /\ req = <<>>
    /\ nextUuid = 1
    /\ clock = 0
    /\ crashed = FALSE

NextStats ==
    \/ /\ Len(req) < MaxStatsReq
       /\ PostRealities(ValidEvent, S1, OneTape, FALSE)
    \/ \E r \in Issued : RealitiesInsert(r, FALSE)
    \/ \E r \in Issued, err \in BOOLEAN : AnalyticsInsert(r, err)
    \/ /\ Len(req) < MaxStatsReq
       /\ GetStats(S1)
    \/ \E r \in Issued, k \in 1..3, err \in BOOLEAN : StatsCount(r, k, err)

SpecStats == InitStats /\ [][NextStats]_vars

(* The whole server, every handler with every input. *)
Next ==
    \/ \E event \in Events, s \in Sessions \cup {Undefined}, tape \in Tapes,
          raised \in BOOLEAN : PostRealities(event, s, tape, raised)
    \/ \E r \in Issued, err \in BOOLEAN : RealitiesInsert(r, err)
    \/ \E r \in Issued, err \in BOOLEAN : AnalyticsInsert(r, err)
    \/ \E s \in Sessions, page \in PageInputs : GetRealities(s, page[1], page[2])
    \/ \E r \in Issued, err \in BOOLEAN : RealitiesSelect(r, err)
    \/ \E s \in Sessions \cup {Undefined}, mp \in MakePublicInputs :
          PostTrees(TreeData, s, mp)
    \/ \E r \in Issued, err \in BOOLEAN : TreesInsert(r, err)
    \/ \E t \in TokenGuesses : GetShare(t)
    \/ \E r \in Issued, err \in BOOLEAN : ShareSelect(r, err)
    \/ \E r \in Issued, err \in BOOLEAN : ViewUpdate(r, err)
    \/ \E s \in Sessions : GetStats(s)
    \/ \E r \in Issued, k \in 1..3, err \in BOOLEAN : StatsCount(r, k, err)
    \/ Tick

Spec == Init /\ [][Next]_vars

----------------------------------------------------------------------------
(* Properties *)

Requests(kind) == {r \in Issued : req[r].kind = kind}

\* the share tokens of the rows stored as public
PublicTokens ==
    {reality_trees[i].share_token : i \in {j \in 1..Len(reality_trees) :
                                             reality_trees[j].is_public = 1}} \ {NULL}

\* the ids of the rows of a sequence
Ids(rows) == {rows[i].id : i \in 1..Len(rows)}

(* C1: for a public tree, when the requests for its share token come one after
   another, each after the view-count update of the one before was applied,
   the k-th request that the store serves (no 500) is answered 200 with
   viewCount = k. *)
C1_SequentialFetchCounts ==
    \A r \in Requests("getShare") :
        ( /\ req[r].in.shareToken \in PublicTokens
          /\ req[r].hist.seq
          /\ req[r].pc = "done"
          /\ req[r].resp.status # 500 )
        => /\ req[r].resp.status = 200
           /\ req[r].resp.viewCount = req[r].hist.k

\* a second fetch in sequence was answered with viewCount 2
C1_Witness ==
    \E r \in Requests("getShare") :
        /\ req[r].hist.seq
        /\ req[r].hist.k = 2
        /\ req[r].resp.status = 200
        /\ req[r].resp.viewCount = 2

(* C2: every successful fetch returns the post-increment count: the viewCount
   of its response is the view_count the row holds right after the request's
   own UPDATE was applied, in every interleaving. *)
C2_ReturnsPostIncrement ==
    \A r \in Requests("getShare") :
        req[r].aux = "ok" => req[r].resp.viewCount = req[r].hist.after

(* C3: a fetch for a token that is no public tree's share token is answered
   404 (500 when the store fails the SELECT), never with the tree data, and
   queues no UPDATE: every row's view_count is the number of applied updates
   of requests that asked for that row's own share token. *)
C3_UnknownTokenNotFound ==
    /\ \A r \in Requests("getShare") :
          (req[r].pc = "done" /\ req[r].in.shareToken \notin PublicTokens)
          => /\ req[r].resp.status \in {404, 500}
             /\ "treeData" \notin DOMAIN req[r].resp
             /\ req[r].aux = "none"
    /\ \A i \in 1..Len(reality_trees) :
          reality_trees[i].view_count =
              Cardinality({r \in Requests("getShare") :
                              /\ req[r].aux = "ok"
                              /\ reality_trees[i].is_public = 1
                              /\ req[r].in.shareToken = reality_trees[i].share_token})

\* the id of a stored private tree and the string "null" were both asked for
\* and answered 404
C3_Witness ==
    /\ \E r \in Requests("getShare") :
          /\ req[r].resp.status = 404
          /\ \E i \in 1..Len(reality_trees) :
                /\ reality_trees[i].is_public = 0
                /\ reality_trees[i].id = req[r].in.shareToken
    /\ \E r \in Requests("getShare") :
          /\ req[r].resp.status = 404
          /\ req[r].in.shareToken = NullString

(* C4: every reality_trees row has a share_token exactly when is_public is 1;
   POST /api/trees answers shareToken = null and shareUrl = null when
   makePublic is false, and a token with its URL when makePublic is true. *)
C4_TokenIffPublic ==
    /\ \A i \in 1..Len(reality_trees) :
          (reality_trees[i].share_token # NULL) <=> (reality_trees[i].is_public = 1)
    /\ \A r \in Requests("postTrees") :
          req[r].resp.status = 200
          => IF req[r].in.makePublic
             THEN /\ req[r].resp.shareToken # NULL
                  /\ req[r].resp.shareUrl = <<"url", req[r].resp.shareToken[2]>>
                  /\ \E i \in 1..Len(reality_trees) :
                        /\ reality_trees[i].id = req[r].resp.treeId
                        /\ reality_trees[i].share_token = req[r].resp.shareToken
                        /\ reality_trees[i].is_public = 1
             ELSE /\ req[r].resp.shareToken = NULL
                  /\ req[r].resp.shareUrl = NULL
                  /\ \E i \in 1..Len(reality_trees) :
                        /\ reality_trees[i].id = req[r].resp.treeId
                        /\ reality_trees[i].share_token = NULL
                        /\ reality_trees[i].is_public = 0

\* a private and a public tree were saved and answered
C4_Witness ==
    /\ \E r \in Requests("postTrees") :
          req[r].resp.status = 200 /\ ~req[r].in.makePublic
    /\ \E r \in Requests("postTrees") :
          req[r].resp.status = 200 /\ req[r].in.makePublic

\* the ids of the realities a response lists
RespIds(resp) == {resp.realities[i].id : i \in 1..Len(resp.realities)}

\* creation requests never lose rows: the stored ids differ pairwise, and every
\* creation request answered 200 has its row under its session
NoRowLost ==
    /\ \A i, j \in 1..Len(realities) :
          i # j => realities[i].id # realities[j].id
    /\ \A r \in Requests("postRealities") :
          req[r].resp.status = 200
          => \E i \in 1..Len(realities) :
                /\ realities[i].id = req[r].resp.id
                /\ realities[i].user_session = req[r].in.userSession
    /\ Len(realities) =
          Cardinality({r \in Requests("postRealities") : req[r].resp.status = 200})

\* the page of the request covers every row the session had at the SELECT
PageCovers(q) ==
    q.stmt.offset = 0 /\ q.stmt.limit >= Len(q.hist.stored)

(* C5, as claimed: creation requests for one session, however they interleave,
   leave as many distinct rows, and a later GET /api/realities/:session
   returns all of them. *)
C5_FetchReturnsAllRows ==
    /\ NoRowLost
    /\ \A g \in Requests("getRealities") :
          req[g].resp.status = 200
          => Ids(req[g].hist.stored) \subseteq RespIds(req[g].resp)

(* C5, amended: creation requests for one session, however they interleave,
   leave as many distinct rows, and a later GET /api/realities/:session with
   offset 0 and a limit (20 by default) of at least the number of rows stored
   for the session returns all of them. *)
C5_FetchReturnsAllRowsOfPage ==
    /\ NoRowLost
    /\ \A g \in Requests("getRealities") :
          (req[g].resp.status = 200 /\ PageCovers(req[g]))
          => Ids(req[g].hist.stored) \subseteq RespIds(req[g].resp)

\* two creation requests of one session overlapped, and a fetch with the
\* default page returned both rows
C5_Witness ==
    \E g \in Requests("getRealities") :
        /\ req[g].resp.status = 200
        /\ req[g].stmt.limit = DefaultLimit
        /\ req[g].stmt.offset = 0
        /\ \E a, b \in Requests("postRealities") :
              /\ a # b
              /\ req[b].hist.overlaps
              /\ req[a].resp.status = 200
              /\ req[b].resp.status = 200
              /\ {req[a].resp.id, req[b].resp.id} \subseteq RespIds(req[g].resp)

\* an event that is missing, empty or made of whitespace only
BlankEvent(event) ==
    event = EventUndefined \/ \A i \in 1..Len(event) : event[i] = " "

(* C6: POST /api/realities with a missing, empty or whitespace-only event is
   answered 400 without a generated reality or a queued statement, and writes
   nothing: the realities rows are those of the requests answered 200 and the
   analytics rows those of the applied logEvent inserts. *)
C6_BlankEventRejected ==
    /\ \A r \in Requests("postRealities") :
          BlankEvent(req[r].in.event)
          => /\ req[r].pc = "done"
             /\ req[r].resp.status = 400
             /\ req[r].stmt = <<>>
             /\ req[r].aux = "none"
    /\ \A i \in 1..Len(realities) : ~BlankEvent(realities[i].original_event)
    /\ Len(realities) =
          Cardinality({r \in Requests("postRealities") : req[r].resp.status = 200})
    /\ Len(analytics) =
          Cardinality({r \in Requests("postRealities") : req[r].aux = "ok"})

\* a whitespace-only event and a missing event were both answered 400
C6_Witness ==
    /\ \E r \in Requests("postRealities") :
          req[r].in.event = <<" ", " ">> /\ req[r].resp.status = 400
    /\ \E r \in Requests("postRealities") :
          req[r].in.event = EventUndefined /\ req[r].resp.status = 400

\* the row a creating request stored, in the table of its kind
PrimaryRowStored(q) ==
    IF q.kind = "postRealities"
    THEN q.stmt.id \in Ids(realities)
    ELSE q.stmt.id \in Ids(reality_trees)

(* C7: once the primary INSERT of POST /api/realities or POST /api/trees has
   succeeded (logEvent was called), the request has its 200 response and its
   row stays stored, whether the analytics INSERT is waiting, succeeded or
   failed. *)
C7_AnalyticsFailureNotPropagated ==
    \A r \in Requests("postRealities") \cup Requests("postTrees") :
        req[r].aux \in {"queued", "ok", "err"}
        => /\ req[r].resp.status = 200
           /\ PrimaryRowStored(req[r])

\* the analytics INSERT failed for a reality and for a tree, both answered 200
C7_Witness ==
    /\ \E r \in Requests("postRealities") :
          req[r].aux = "err" /\ req[r].resp.status = 200
    /\ \E r \in Requests("postTrees") :
          req[r].aux = "err" /\ req[r].resp.status = 200

\* a probability in [0.2, 0.9) and an integer impact in [3, 10]
ScoresInRange(probability, impact) ==
    /\ 2 * ProbDen <= 10 * probability
    /\ 10 * probability < 9 * ProbDen
    /\ impact \in 3..10

\* the generated reality of a creation request and the row stored for it
\* have n outcomes for some n of counts, and scores in range
GeneratedWithin(r, counts) ==
    /\ Len(req[r].stmt.reality.outcomes) \in counts
    /\ ScoresInRange(req[r].stmt.reality.probability, req[r].stmt.reality.impact)
    /\ \A i \in 1..Len(realities) :
          realities[i].id = req[r].stmt.id
          => /\ Len(Parse(realities[i].outcomes).value) \in counts
             /\ ScoresInRange(realities[i].probability_score,
                              realities[i].impact_score)

(* C8, as claimed: the reality generateReality returns for a non-empty event,
   and the row stored for it, has 2 to 4 outcomes, a probability in
   [0.2, 0.9) and an integer impact in [3, 10], on the normal and on the
   fallback path. *)
C8_OutcomesTwoToFour ==
    \A r \in Requests("postRealities") :
        req[r].stmt # <<>> => GeneratedWithin(r, 2..4)

(* C8, amended: the reality generateReality returns for a non-empty event,
   and the row stored for it, has a probability in [0.2, 0.9) and an integer
   impact in [3, 10]; it has 2 to 4 outcomes on the normal path and exactly
   1 outcome on the fallback path. *)
C8_OutcomesByPath ==
    \A r \in Requests("postRealities") :
        req[r].stmt # <<>>
        => IF req[r].stmt.reality.path = "normal"
           THEN GeneratedWithin(r, 2..4)
           ELSE GeneratedWithin(r, {1})

\* a fallback reality and a normal reality of four outcomes were both stored
C8_Witness ==
    /\ \E r \in Requests("postRealities") :
          /\ req[r].resp.status = 200
          /\ req[r].stmt.reality.path = "fallback"
    /\ \E r \in Requests("postRealities") :
          /\ req[r].resp.status = 200
          /\ req[r].stmt.reality.path = "normal"
          /\ Len(req[r].stmt.reality.outcomes) = 4

\* the response g lists the reality that r created, with the outcomes of
\* r's creation response
ListsCreated(g, r) ==
    \E i \in 1..Len(req[g].resp.realities) :
        /\ req[g].resp.realities[i].id = req[r].resp.id
        /\ req[g].resp.realities[i].outcomes = req[r].resp.outcomes

\* r created a reality that was stored under the session of g at g's SELECT
CreatedBefore(r, g) ==
    /\ req[r].resp.status = 200
    /\ req[g].resp.status = 200
    /\ req[r].resp.id \in Ids(req[g].hist.stored)

(* C9, as claimed: after a successful POST /api/realities, GET
   /api/realities/:session returns that reality with the same id and with
   outcomes equal to those of the creation response. *)
C9_FetchReturnsCreated ==
    \A r \in Requests("postRealities"), g \in Requests("getRealities") :
        CreatedBefore(r, g) => ListsCreated(g, r)

(* C9, amended: after a successful POST /api/realities, a GET
   /api/realities/:session with offset 0 and a limit (20 by default) of at
   least the number of rows stored for the session returns that reality with
   the same id and with outcomes equal to those of the creation response; and
   whenever any GET lists the reality, its outcomes are equal to those of the
   creation response. *)
C9_FetchRoundTrips ==
    \A r \in Requests("postRealities"), g \in Requests("getRealities") :
        CreatedBefore(r, g)
        => /\ PageCovers(req[g]) => ListsCreated(g, r)
           /\ req[r].resp.id \in RespIds(req[g].resp) => ListsCreated(g, r)

\* a fetch listed a created reality with its three outcomes
C9_Witness ==
    \E r \in Requests("postRealities"), g \in Requests("getRealities") :
        /\ CreatedBefore(r, g)
        /\ ListsCreated(g, r)
        /\ Len(req[r].resp.outcomes) = 3

(* C10: GET /api/realities/:userSession never fails because of a row's stored
   outcomes: once the callback of its SELECT has run the request has a
   response, and in a 200 response a row whose outcomes is absent or does not
   parse is listed with outcomes = []. *)
C10_UnparsableOutcomesTolerated ==
    \A g \in Requests("getRealities") :
        req[g].pc = "done"
        => /\ req[g].resp.status \in {200, 500}
           /\ req[g].resp.status = 200
              => \A i \in 1..Len(req[g].resp.realities) :
                    \A j \in 1..Len(realities) :
                       ( /\ realities[j].id = req[g].resp.realities[i].id
                         /\ ~Parse(realities[j].outcomes).ok )
                       => req[g].resp.realities[i].outcomes = <<>>

\* the creation request a finished before the creation request b of the same
\* session began: b came later and found no creation of its session waiting
CompletedBefore(a, b) ==
    /\ a < b
    /\ req[a].in.userSession = req[b].in.userSession
    /\ req[b].pc = "done" /\ req[b].resp.status = 200
    /\ ~req[b].hist.overlaps

\* the number of rows LIMIT limit OFFSET offset leaves of n rows
PageLen(n, limit, offset) == Min(n, offset + limit) - Min(n, offset)

(* C11: GET /api/realities/:userSession returns at most limit rows (20 by
   default) after skipping offset rows, every returned row belongs to the
   requested session, and the rows are newest-first: of two realities of which
   one was created by a request that completed before the other's request
   began, the older one is never listed before the newer one. *)
C11_PageNewestFirst ==
    \A g \in Requests("getRealities") :
        req[g].resp.status = 200
        => LET rows == req[g].resp.realities
               stored == req[g].hist.stored
           IN /\ Len(rows) <= req[g].stmt.limit
              /\ Len(rows) = PageLen(Len(stored), req[g].stmt.limit, req[g].stmt.offset)
              /\ \A i \in 1..Len(rows) :
                    rows[i].user_session = req[g].stmt.user_session
              /\ \A i, j \in 1..Len(rows) :
                    \A a, b \in Requests("postRealities") :
                        (/\ i < j
                         /\ req[a].pc = "done" /\ req[a].resp.status = 200
                         /\ rows[i].id = req[a].stmt.id
                         /\ req[b].pc = "done" /\ req[b].resp.status = 200
                         /\ rows[j].id = req[b].stmt.id)
                        => ~CompletedBefore(a, b)

\* floor((17 * realitiesCreated + 3 * totalInteractions) / 10)
ClaimedScore(realitiesCreated, totalInteractions) ==
    (17 * realitiesCreated + 3 * totalInteractions) \div 10

\* the counts a stats response carries, in the order of the queries
RespCounts(resp) ==
    <<resp.realitiesCreated, resp.treesSaved, resp.totalInteractions>>

\* every count of a stats response is a number of rows the session had at
\* some moment of the request: not less than when the request arrived, not
\* more than now (no operation deletes a row)
CountsOfSession(g) ==
    \A k \in 1..3 :
        /\ req[g].hist.at[k] <= RespCounts(req[g].resp)[k]
        /\ RespCounts(req[g].resp)[k] <= CountRows(StatsTable(k), req[g].stmt.user_session)

(* C12: GET /api/stats/:userSession returns the numbers of realities, trees
   and analytics rows stored for that session only, and diversityScore =
   floor((17 * realitiesCreated + 3 * totalInteractions) / 10) for all counts;
   with 3 realities and 5 analytics rows the score is 6. *)
C12_StatsCountsAndScore ==
    \A g \in Requests("getStats") :
        req[g].resp.status = 200
        => /\ CountsOfSession(g)
           /\ req[g].resp.diversityScore =
                 ClaimedScore(req[g].resp.realitiesCreated, req[g].resp.totalInteractions)
           /\ (req[g].resp.realitiesCreated = 3 /\ req[g].resp.totalInteractions = 5)
                 => req[g].resp.diversityScore = 6

\* the request's INSERT or one of its COUNT queries failed: the INSERT ran
\* and left no row, or a promise of the stats handler is rejected
StoreCallFailed(q) ==
    IF q.kind \in {"postRealities", "postTrees"}
    THEN q.pc = "done" /\ q.stmt # <<>> /\ ~PrimaryRowStored(q)
    ELSE IF q.kind = "getStats"
    THEN \E k \in 1..3 : q.stmt.promise[k] = "rejected"
    ELSE FALSE

\* an analytics event of the request was queued or stored
EventProduced(q) ==
    /\ q.kind \in {"postRealities", "postTrees"}
    /\ q.stmt # <<>>
    /\ \/ q.aux # "none"
       \/ \E i \in 1..Len(analytics) : analytics[i].event_data = q.stmt.id

\* a 500 with an error message, and nothing else done for the request
FailureReported(q) ==
    /\ q.resp.status = 500
    /\ "error" \in DOMAIN q.resp
    /\ q.aux = "none"
    /\ ~EventProduced(q)

(* C13: every request whose store calls have all run has received a response
   (never none); when the store call of POST /api/realities, GET
   /api/realities, POST /api/trees, GET /api/trees/share or GET /api/stats
   failed, the response is a 500 with an error message, nothing is stored by a
   retry, and no success response and no analytics event exist for that
   request. *)
C13_OneResponseFailuresReported ==
    \A r \in Issued :
        /\ req[r].pc = "done" => req[r].resp.status \in {200, 400, 404, 500}
        /\ StoreCallFailed(req[r]) => FailureReported(req[r])
        /\ req[r].resp.status = 500
              => /\ FailureReported(req[r])
                 /\ req[r].kind \in {"postRealities", "postTrees"}
                       => ~PrimaryRowStored(req[r])

\* the creation requests that stored the tree row
CreatorsOf(row) ==
    {r \in Requests("postTrees") : req[r].resp.status = 200 /\ req[r].stmt.id = row.id}

(* C14: a tree's sharing status is fixed at creation: whatever operations
   followed, every stored tree is public with the share token it was created
   with when it was created with makePublic, and private with a null token
   otherwise; and no two trees hold the same non-null share token. *)
C14_SharingFixedAtCreation ==
    /\ \A i \in 1..Len(reality_trees) :
          LET row == reality_trees[i]
          IN /\ CreatorsOf(row) # {}
             /\ \A r \in CreatorsOf(row) :
                   /\ row.share_token = req[r].resp.shareToken
                   /\ row.is_public = (IF req[r].in.makePublic THEN 1 ELSE 0)
                   /\ (row.share_token = NULL) <=> ~req[r].in.makePublic
    /\ \A i, j \in 1..Len(reality_trees) :
          (i # j /\ reality_trees[i].share_token # NULL)
          => reality_trees[i].share_token # reality_trees[j].share_token

\* a private and a public tree were stored, then the public one was fetched
\* and its UPDATE applied
C14_Witness ==
    \E i, j \in 1..Len(reality_trees), g \in Requests("getShare") :
        /\ reality_trees[i].is_public = 0
        /\ reality_trees[j].is_public = 1
        /\ reality_trees[j].view_count > 0
        /\ req[g].aux = "ok"
        /\ req[g].stmt.id = reality_trees[j].id
        /\ \A r \in CreatorsOf(reality_trees[i]) \cup CreatorsOf(reality_trees[j]) : r < g

\* the share requests that found the tree row
FoundBy(row) ==
    {g \in Requests("getShare") : req[g].resp.status = 200 /\ req[g].stmt.id = row.id}

\* those whose UPDATE has been applied
AppliedOf(row) == {g \in FoundBy(row) : req[g].aux = "ok"}

(* C15: the stored view_count of a tree is 0 until an UPDATE is applied and
   never decreases (it is never below the count any applied UPDATE left); it
   stays 0 for a private tree, which no request finds; every applied UPDATE
   adds exactly one, whatever the interleaving of the fetches; and once the
   UPDATE of every request that found a public tree has been applied, the
   count equals the number of those requests. *)
C15_ViewCountCountsFetches ==
    \A i \in 1..Len(reality_trees) :
        LET row == reality_trees[i]
        IN /\ AppliedOf(row) = {} => row.view_count = 0
           /\ \A g \in AppliedOf(row) :
                 /\ req[g].hist.after >= 1
                 /\ req[g].hist.after <= row.view_count
           /\ \A g, h \in AppliedOf(row) :
                 g # h => req[g].hist.after # req[h].hist.after
           /\ row.view_count = Cardinality(AppliedOf(row))
           /\ row.is_public = 0 => (FoundBy(row) = {} /\ row.view_count = 0)
           /\ (row.is_public = 1 /\ AppliedOf(row) = FoundBy(row))
                 => row.view_count = Cardinality(FoundBy(row))

\* two fetches of one public tree overlapped (both read the count 0 and
\* answered 1), both UPDATEs were applied and the row holds 2
C15_Witness ==
    \E i \in 1..Len(reality_trees) :
        /\ reality_trees[i].is_public = 1
        /\ reality_trees[i].view_count = 2
        /\ \E g, h \in AppliedOf(reality_trees[i]) :
              /\ g # h
              /\ req[g].resp.viewCount = 1
              /\ req[h].resp.viewCount = 1

====
